---- MODULE Spec2Model ----
(***************************************************************************)
(* Model of email_checker.py: the EmailValidator class, its six checks,    *)
(* the run_all_validations loop and the print_summary verdict.             *)
(*                                                                         *)
(* Strings are sequences of one-character strings.  The resolver, the      *)
(* email-validator library and the SMTP server are the environment: each   *)
(* check draws their reply from the set of replies they can give.          *)
(* The tri-state 'valid' value True / False / None is "True", "False",     *)
(* "None".  A message is [text, arg]: the fixed text of the f-string and   *)
(* the values interpolated into it (an exception by its type; the record   *)
(* count and host list of a DNS answer are left out).  The elapsed time of *)
(* an entry and the console output are not modelled.  The value returned  *)
(* by run_all_validations is self.results itself, the variable results.    *)
(***************************************************************************)
EXTENDS Integers, Sequences, FiniteSets, TLC

VARIABLES
    email,                \* self.email
    HAS_EMAIL_VALIDATOR,  \* module flag set by the import of email_validator
    HAS_DNS,              \* module flag set by the import of dns.resolver
    results,              \* self.results: insertion-ordered dict, as a sequence of [name, valid, message]
    pc,                   \* "idle" (constructed), "loop" (inside the for loop), "done" (returned)
    idx,                  \* position of the for loop in tests, 1..NumTests+1
    runs,                 \* number of run_all_validations calls started
    calls,                \* per test, how often test_func() was called in the current run
    queries,              \* dns.resolver.resolve calls made in the current run
    conn,                 \* the SMTP socket of the current run: "none", "open", "closed"
    libEnv,               \* what validate_email did in the current run
    dnsEnv,               \* what the resolver replied to check_dns_mx / check_dns_a in the current run
    smtpEnv,              \* how far the SMTP exchange of the current run got, and the RCPT code
    passed, failed, skipped, verdict    \* locals of print_summary (0 / "none" outside it)

vars == <<email, HAS_EMAIL_VALIDATOR, HAS_DNS, results, pc, idx, runs, calls,
          queries, conn, libEnv, dnsEnv, smtpEnv, passed, failed, skipped, verdict>>

-----------------------------------------------------------------------------
(* Bounds *)

MaxLen == 2        \* addresses over Alphabet are enumerated up to this length
MaxRuns == 2       \* run_all_validations calls on one EmailValidator

-----------------------------------------------------------------------------
(* Character classes of the two patterns *)

Alpha == {"a", "Z"}
Digit == {"0", "9"}
AlNum == Alpha \cup Digit
BasicLocalChars == AlNum \cup {".", "_", "%", "+", "-"}
BasicDomainChars == AlNum \cup {".", "-"}
\* (the apostrophe and the backquote of the RFC class are left out of the model's characters)
RfcLocalChars == AlNum \cup {".", "!", "#", "$", "%", "&", "*", "+", "/",
                             "=", "?", "^", "_", "{", "|", "}", "~", "-"}
MinTld == 2
MaxLabelInner == 61

AllIn(s, lo, hi, class) == \A p \in lo..hi : s[p] \in class

\* re.match(pattern, self.email) for the pattern of validate_basic_regex
BasicMatch(s) ==
    \E i \in 2..Len(s) :
        /\ s[i] = "@"
        /\ AllIn(s, 1, i - 1, BasicLocalChars)
        /\ \E j \in (i + 2)..(Len(s) - MinTld) :
              /\ s[j] = "."
              /\ AllIn(s, i + 1, j - 1, BasicDomainChars)
              /\ AllIn(s, j + 1, Len(s), Alpha)

\* label(\.label)* with label = alnum([alnum-]{0,61}alnum)? on s[lo..hi]
DomainLabels(s, lo, hi) ==
    /\ lo <= hi
    /\ AllIn(s, lo, hi, AlNum \cup {"-", "."})
    /\ s[lo] \in AlNum
    /\ s[hi] \in AlNum
    /\ \A p \in lo..hi : s[p] = "." => (s[p - 1] \in AlNum /\ s[p + 1] \in AlNum)
    /\ \A p \in lo..hi :
          ~ (p + MaxLabelInner + 2 <= hi /\ \A q \in p..(p + MaxLabelInner + 2) : s[q] # ".")

\* re.match(pattern, self.email) for the pattern of validate_rfc5322
RfcMatch(s) ==
    \E i \in 2..Len(s) :
        /\ s[i] = "@"
        /\ AllIn(s, 1, i - 1, RfcLocalChars)
        /\ DomainLabels(s, i + 1, Len(s))

\* self.email.split(@)[1] exists; without an at sign the index raises IndexError
HasAt(s) == \E i \in 1..Len(s) : s[i] = "@"


-----------------------------------------------------------------------------
(* Addresses *)

Alphabet == {"a", "@", "."}

RECURSIVE StringsOfLen(_)
StringsOfLen(n) ==
    IF n = 0 THEN {<<>>}
    ELSE {Append(s, c) : s \in StringsOfLen(n - 1), c \in Alphabet}

Samples == { <<"a", "@", "a">>,
             <<"a", "@", "a", ".", "a", "Z">>,        \* user@example.com
             <<"a", "!", "@", "a", "-", "0">>,        \* RFC-only local part
             <<"a", "@", "-", "a", ".", "a", "a">>,   \* label starting with '-'
             <<"a", "-", "a", "a">> }                 \* not-an-email

Emails == (UNION {StringsOfLen(n) : n \in 1..MaxLen}) \cup Samples

-----------------------------------------------------------------------------
(* Outcomes of a check *)

Msg(text, arg) == [text |-> text, arg |-> arg]
Ret(valid, message) == [raised |-> FALSE, valid |-> valid, message |-> message]
Raise(exc) == [raised |-> TRUE, exc |-> exc]

TestNames == <<"Basic Regex", "RFC 5322", "Email Validator Library",
               "DNS MX Records", "DNS A Records", "SMTP Verification">>
NumTests == Len(TestNames)

validate_basic_regex ==
    IF BasicMatch(email) THEN Ret("True", Msg("Valid format", <<>>))
    ELSE Ret("False", Msg("Invalid format", <<>>))

validate_rfc5322 ==
    IF RfcMatch(email) THEN Ret("True", Msg("RFC 5322 compliant", <<>>))
    ELSE Ret("False", Msg("Not RFC 5322 compliant", <<>>))

\* Replies of validate_email(self.email, check_deliverability=False)
LibReplies == {"normalized", "EmailNotValidError", "Exception"}

validate_with_library(reply) ==
    IF ~HAS_EMAIL_VALIDATOR
    THEN Ret("None", Msg("email-validator library not installed", <<>>))
    ELSE CASE reply = "normalized" -> Ret("True", Msg("Valid (normalized: )", <<"normalized">>))
           [] reply = "EmailNotValidError" -> Ret("False", Msg("Invalid: ", <<reply>>))
           [] OTHER -> Raise(reply)

-----------------------------------------------------------------------------
(* DNS checks *)

DnsErrors == {"NXDOMAIN", "NoAnswer", "NoNameservers", "Timeout"}

\* Replies of dns.resolver.resolve(domain, rdtype): an answer, or an exception
DnsReplies == {"answer"} \cup DnsErrors

check_dns_mx(reply) ==
    IF ~HAS_DNS THEN Ret("None", Msg("dnspython library not installed", <<>>))
    ELSE IF ~HasAt(email) THEN Ret("False", Msg("Invalid email format (no @ symbol)", <<>>))
    ELSE CASE reply = "answer" -> Ret("True", Msg("Found MX record(s): ", <<>>))
           [] reply = "NXDOMAIN" -> Ret("False", Msg("Domain does not exist", <<>>))
           [] reply = "NoAnswer" -> Ret("False", Msg("No MX records found", <<>>))
           [] reply = "NoNameservers" -> Ret("False", Msg("No nameservers available", <<>>))
           [] OTHER -> Ret("False", Msg("DNS error: ", <<reply>>))

check_dns_a_unguarded(reply) ==
    IF ~HasAt(email) THEN Ret("False", Msg("No A records found: ", <<"list index out of range">>))
    ELSE IF reply = "answer" THEN Ret("True", Msg("Found A record(s): ", <<>>))
    ELSE Ret("False", Msg("No A records found: ", <<reply>>))

check_dns_a(reply) ==
    IF ~HAS_DNS THEN Ret("None", Msg("dnspython library not installed", <<>>))
    ELSE IF ~HasAt(email) THEN Ret("False", Msg("No A records found: ", <<"list index out of range">>))
    ELSE IF reply = "answer" THEN Ret("True", Msg("Found A record(s): ", <<>>))
    ELSE Ret("False", Msg("No A records found: ", <<reply>>))

\* whether a check that needs the domain reaches dns.resolver.resolve
Resolves == HAS_DNS /\ HasAt(email)

\* what the resolver was asked and what it replied, for the record of the run
DnsSeen(reply) ==
    IF ~HAS_DNS THEN "skipped"
    ELSE IF ~HasAt(email) THEN "IndexError"
    ELSE reply

-----------------------------------------------------------------------------
(* SMTP check *)

Codes == {250, 251, 252, 550}

\* Behaviours of the mail exchanger and of smtplib: the call that raises (or
\* "none"), the RCPT reply code, whether smtplib had closed the socket when
\* it raised, and whether the reply text decodes.
SmtpScripts ==
    {[failAt |-> "connect", code |-> 0, libClosed |-> TRUE, decodeOk |-> TRUE]}
    \cup {[failAt |-> f, code |-> 0, libClosed |-> b, decodeOk |-> TRUE]
             : f \in {"helo", "mail", "rcpt"}, b \in BOOLEAN}
    \cup {[failAt |-> "quit", code |-> c, libClosed |-> b, decodeOk |-> TRUE]
             : c \in Codes, b \in BOOLEAN}
    \cup {[failAt |-> "none", code |-> c, libClosed |-> TRUE, decodeOk |-> TRUE]
             : c \in Codes}
    \cup {[failAt |-> "none", code |-> c, libClosed |-> TRUE, decodeOk |-> FALSE]
             : c \in Codes \ {250, 251}}

\* the resolver's reply to verify_smtp and, when it answers, the exchange that follows
SmtpInputs ==
    {<<r, [failAt |-> "none", code |-> 0, libClosed |-> TRUE, decodeOk |-> TRUE]>>
        : r \in DnsErrors}
    \cup {<<"answer", s>> : s \in SmtpScripts}

SmtpFailed(exc) == Ret("False", Msg("SMTP verification failed: ", <<exc>>))

ClassifyRcptAny2xx(code, decodeOk) ==
    IF code = 250 THEN Ret("True", Msg("Mailbox verified (code )", <<ToString(code)>>))
    ELSE IF code >= 200 /\ code < 300
    THEN Ret("True", Msg("User not local, will forward (code )", <<ToString(code)>>))
    ELSE IF decodeOk
    THEN Ret("False", Msg("Verification failed (code ): ", <<ToString(code), "message">>))
    ELSE Raise("UnicodeDecodeError")

\* the if / elif / else on the RCPT reply code; message.decode() may raise
ClassifyRcpt(code, decodeOk) ==
    IF code = 250 THEN Ret("True", Msg("Mailbox verified (code )", <<ToString(code)>>))
    ELSE IF code = 251
    THEN Ret("True", Msg("User not local, will forward (code )", <<ToString(code)>>))
    ELSE IF decodeOk
    THEN Ret("False", Msg("Verification failed (code ): ", <<ToString(code), "message">>))
    ELSE Raise("UnicodeDecodeError")

verify_smtp(reply, s) ==
    IF ~HAS_DNS THEN Ret("None", Msg("dnspython library required for SMTP check", <<>>))
    ELSE IF ~HasAt(email) THEN SmtpFailed("list index out of range")
    ELSE IF reply # "answer" THEN SmtpFailed(reply)
    ELSE IF s.failAt # "none" THEN SmtpFailed("SMTPException")
    ELSE LET r == ClassifyRcpt(s.code, s.decodeOk)
         IN  IF r.raised THEN SmtpFailed(r.exc) ELSE r

\* the state of the socket when verify_smtp returns: server.quit() is the
\* only close in verify_smtp, and it is reached only when rcpt() returned
SmtpConn(reply, s) ==
    IF ~Resolves \/ reply # "answer" \/ s.failAt = "connect" THEN "none"
    ELSE IF s.failAt \in {"helo", "mail", "rcpt", "quit"}
    THEN (IF s.libClosed THEN "closed" ELSE "open")
    ELSE "closed"

\* how far the exchange got: the call that raised, or "done"
SmtpSeen(reply, s) ==
    IF ~HAS_DNS THEN [stage |-> "skipped", code |-> 0]
    ELSE IF ~HasAt(email) THEN [stage |-> "split", code |-> 0]
    ELSE IF reply # "answer" THEN [stage |-> "resolve", code |-> 0]
    ELSE IF s.failAt # "none" THEN [stage |-> s.failAt, code |-> s.code]
    ELSE IF ClassifyRcpt(s.code, s.decodeOk).raised THEN [stage |-> "decode", code |-> s.code]
    ELSE [stage |-> "done", code |-> s.code]

-----------------------------------------------------------------------------
(* The report and the pipeline *)

Names(res) == {res[i].name : i \in 1..Len(res)}

Entry(res, name) == res[CHOOSE i \in 1..Len(res) : res[i].name = name]

\* self.results[name] = entry on an insertion-ordered dict
DictSet(res, name, entry) ==
    IF name \in Names(res)
    THEN [i \in 1..Len(res) |-> IF res[i].name = name THEN entry ELSE res[i]]
    ELSE Append(res, entry)

RecordOutcomeErrorAsNone(res, name, out) ==
    IF out.raised
    THEN DictSet(res, name, [name |-> name, valid |-> "None",
                             message |-> Msg("Error: ", <<out.exc>>)])
    ELSE DictSet(res, name, [name |-> name, valid |-> out.valid, message |-> out.message])

\* the try / except around test_func() in the loop body
RecordOutcome(res, name, out) ==
    IF out.raised
    THEN DictSet(res, name, [name |-> name, valid |-> "False",
                             message |-> Msg("Error: ", <<out.exc>>)])
    ELSE DictSet(res, name, [name |-> name, valid |-> out.valid, message |-> out.message])

NextIndexStopOnFailure(i, out) ==
    IF out.raised \/ out.valid = "False" THEN NumTests + 1 ELSE i + 1

\* the for loop moves to the next test whatever the outcome was
NextIndex(i, out) == i + 1

CountPassed(res) == Cardinality({i \in 1..Len(res) : res[i].valid = "True"})

CountFailedFalsy(res) == Cardinality({i \in 1..Len(res) : res[i].valid # "True"})

CountFailed(res) == Cardinality({i \in 1..Len(res) : res[i].valid = "False"})

CountSkipped(res) == Cardinality({i \in 1..Len(res) : res[i].valid = "None"})

VerdictLoose(p, f) ==
    IF p >= 4 /\ f <= 1 THEN "EMAIL IS VALID AND SECURE"
    ELSE IF p >= 2 /\ f <= 2 THEN "EMAIL MAY BE VALID (mixed results)"
    ELSE "EMAIL IS LIKELY INVALID"

Verdict(p, f) ==
    IF p >= 4 /\ f = 0 THEN "EMAIL IS VALID AND SECURE"
    ELSE IF p >= 2 /\ f <= 2 THEN "EMAIL MAY BE VALID (mixed results)"
    ELSE "EMAIL IS LIKELY INVALID"

-----------------------------------------------------------------------------
(* Actions *)

NoCalls == [k \in 1..NumTests |-> 0]
NoDns == [k \in {4, 5} |-> "unset"]
NoSmtp == [stage |-> "unset", code |-> 0]

\* EmailValidator(email), with the module flags as the imports left them
Init ==
    /\ email \in Emails
    /\ HAS_EMAIL_VALIDATOR \in BOOLEAN
    /\ HAS_DNS \in BOOLEAN
    /\ results = <<>>
    /\ pc = "idle"
    /\ idx = 1
    /\ runs = 0
    /\ calls = NoCalls
    /\ queries = 0
    /\ conn = "none"
    /\ libEnv = "unset"
    /\ dnsEnv = NoDns
    /\ smtpEnv = NoSmtp
    /\ passed = 0 /\ failed = 0 /\ skipped = 0
    /\ verdict = "none"

\* run_all_validations is entered: the header is printed and the loop starts
StartRun ==
    /\ pc \in {"idle", "done"}
    /\ runs < MaxRuns
    /\ runs' = runs + 1
    /\ pc' = "loop"
    /\ idx' = 1
    /\ calls' = NoCalls
    /\ queries' = 0
    /\ conn' = "none"
    /\ libEnv' = "unset"
    /\ dnsEnv' = NoDns
    /\ smtpEnv' = NoSmtp
    /\ passed' = 0 /\ failed' = 0 /\ skipped' = 0
    /\ verdict' = "none"
    /\ UNCHANGED <<email, HAS_EMAIL_VALIDATOR, HAS_DNS, results>>

\* one iteration of the loop for test k, whose test_func() gave outcome out
Iterate(k, out) ==
    /\ pc = "loop"
    /\ idx = k
    /\ calls' = [calls EXCEPT ![k] = @ + 1]
    /\ results' = RecordOutcome(results, TestNames[k], out)
    /\ idx' = NextIndex(idx, out)
    /\ UNCHANGED <<email, HAS_EMAIL_VALIDATOR, HAS_DNS, pc, runs, passed, failed, skipped, verdict>>

BasicRegexStep ==
    /\ Iterate(1, validate_basic_regex)
    /\ UNCHANGED <<queries, conn, libEnv, dnsEnv, smtpEnv>>

Rfc5322Step ==
    /\ Iterate(2, validate_rfc5322)
    /\ UNCHANGED <<queries, conn, libEnv, dnsEnv, smtpEnv>>

LibraryStep ==
    /\ \E reply \in LibReplies :
          /\ Iterate(3, validate_with_library(reply))
          /\ libEnv' = IF HAS_EMAIL_VALIDATOR THEN reply ELSE "skipped"
    /\ UNCHANGED <<queries, conn, dnsEnv, smtpEnv>>

DnsMxStep ==
    /\ \E reply \in DnsReplies :
          /\ Iterate(4, check_dns_mx(reply))
          /\ dnsEnv' = [dnsEnv EXCEPT ![4] = DnsSeen(reply)]
    /\ queries' = IF Resolves THEN queries + 1 ELSE queries
    /\ UNCHANGED <<conn, libEnv, smtpEnv>>

DnsAStep ==
    /\ \E reply \in DnsReplies :
          /\ Iterate(5, check_dns_a(reply))
          /\ dnsEnv' = [dnsEnv EXCEPT ![5] = DnsSeen(reply)]
    /\ queries' = IF Resolves THEN queries + 1 ELSE queries
    /\ UNCHANGED <<conn, libEnv, smtpEnv>>

SmtpStep ==
    /\ \E in \in SmtpInputs :
          /\ Iterate(6, verify_smtp(in[1], in[2]))
          /\ conn' = SmtpConn(in[1], in[2])
          /\ smtpEnv' = SmtpSeen(in[1], in[2])
    /\ queries' = IF Resolves THEN queries + 1 ELSE queries
    /\ UNCHANGED <<libEnv, dnsEnv>>

\* the loop is over: print_summary, then return self.results
Summarize ==
    /\ pc = "loop"
    /\ idx = NumTests + 1
    /\ passed' = CountPassed(results)
    /\ failed' = CountFailed(results)
    /\ skipped' = CountSkipped(results)
    /\ verdict' = Verdict(CountPassed(results), CountFailed(results))
    /\ pc' = "done"
    /\ UNCHANGED <<email, HAS_EMAIL_VALIDATOR, HAS_DNS, results, idx, runs, calls,
                   queries, conn, libEnv, dnsEnv, smtpEnv>>

Next ==
    \/ StartRun
    \/ BasicRegexStep
    \/ Rfc5322Step
    \/ LibraryStep
    \/ DnsMxStep
    \/ DnsAStep
    \/ SmtpStep
    \/ Summarize

Spec == Init /\ [][Next]_vars

-----------------------------------------------------------------------------
(* A summary of an arbitrary complete report: every assignment of the three *)
(* outcome states to the six check names, handed to print_summary.          *)

ReportOf(f) == [k \in 1..NumTests |->
                   [name |-> TestNames[k], valid |-> f[k], message |-> Msg("", <<>>)]]

InitSummary ==
    /\ email = <<"a", "@", "a">>
    /\ HAS_EMAIL_VALIDATOR \in BOOLEAN
    /\ HAS_DNS \in BOOLEAN
    /\ \E f \in [1..NumTests -> {"True", "False", "None"}] : results = ReportOf(f)
    /\ pc = "loop"
    /\ idx = NumTests + 1
    /\ runs = 1
    /\ calls = [k \in 1..NumTests |-> 1]
    /\ queries = 0
    /\ conn = "none"
    /\ libEnv = "unset"
    /\ dnsEnv = NoDns
    /\ smtpEnv = NoSmtp
    /\ passed = 0 /\ failed = 0 /\ skipped = 0
    /\ verdict = "none"

SummarySpec == InitSummary /\ [][Summarize]_vars

-----------------------------------------------------------------------------
(* Properties *)

\* test k has been run and its outcome recorded in the current run
Completed(k) == pc = "done" \/ (pc = "loop" /\ idx > k)

Tri == {"True", "False", "None"}

\* C1: a returned report has exactly six outcomes, one per check name, in the
\* fixed order; a check that raised is recorded with valid = False, and the
\* run goes on to its return: inside the loop a step is always possible.
C1_SixOutcomesInOrder ==
    /\ pc = "done" =>
          /\ Len(results) = 6
          /\ \A k \in 1..6 : results[k].name = TestNames[k] /\ results[k].valid \in Tri
    /\ (Completed(3) /\ libEnv = "Exception") =>
          Entry(results, "Email Validator Library").valid = "False"
    /\ pc = "loop" => ENABLED Next

C1_Witness ==
    /\ pc = "done"
    /\ libEnv = "Exception"
    /\ Entry(results, "Email Validator Library").message.text = "Error: "

\* C2: in the summary of a completed run every outcome is counted in exactly
\* one of passed, failed, skipped, so the three counts add up to 6.
C2_CountsPartition ==
    pc = "done" =>
        /\ passed + failed + skipped = 6
        /\ \A k \in 1..Len(results) : results[k].valid \in Tri

C2_Witness == pc = "done" /\ passed > 0 /\ failed > 0 /\ skipped > 0

\* C3: for every triple of counts summing to 6 the verdict is 'valid and
\* secure' exactly when passed >= 4 and failed = 0, else 'may be valid'
\* exactly when passed >= 2 and failed <= 2, else 'likely invalid'; with the
\* boundary cases (4,0,2), (4,1,1) and (1,5,0).
C3_VerdictThresholds ==
    pc = "done" =>
        LET top == passed >= 4 /\ failed = 0
            mid == ~top /\ passed >= 2 /\ failed <= 2
        IN  /\ passed + failed + skipped = 6
            /\ verdict = "EMAIL IS VALID AND SECURE" <=> top
            /\ verdict = "EMAIL MAY BE VALID (mixed results)" <=> mid
            /\ verdict = "EMAIL IS LIKELY INVALID" <=> (~top /\ ~mid)
            /\ (passed = 4 /\ failed = 0 /\ skipped = 2) => verdict = "EMAIL IS VALID AND SECURE"
            /\ (passed = 4 /\ failed = 1) => verdict = "EMAIL MAY BE VALID (mixed results)"
            /\ (passed = 1 /\ failed = 5) => verdict = "EMAIL IS LIKELY INVALID"

C3_Witness ==
    /\ pc = "done"
    /\ passed = 4 /\ failed = 1 /\ skipped = 1
    /\ verdict = "EMAIL MAY BE VALID (mixed results)"

FirstThree(v) == Cardinality({k \in 1..3 : results[k].valid = v})

\* C4: without the DNS capability the MX, A and SMTP checks are recorded as
\* skipped, no DNS query is made and no SMTP connection is opened; skipped is
\* at least 3 and passed and failed count the first three checks only.
C4_DnsAbsentSkips ==
    ~HAS_DNS =>
        /\ \A k \in 4..6 : Completed(k) => Entry(results, TestNames[k]).valid = "None"
        /\ queries = 0
        /\ conn = "none"
        /\ pc = "done" =>
              /\ skipped >= 3
              /\ passed = FirstThree("True")
              /\ failed = FirstThree("False")

C4_Witness ==
    /\ pc = "done"
    /\ ~HAS_DNS
    /\ HasAt(email)
    /\ skipped >= 3
    /\ passed > 0

\* C5: for an address without '@', with the DNS capability, both DNS checks
\* return valid = False with the no-'@' message and neither raises.
C5_Original ==
    (HAS_DNS /\ ~HasAt(email)) =>
        \A k \in {4, 5} : Completed(k) =>
            /\ Entry(results, TestNames[k]).valid = "False"
            /\ Entry(results, TestNames[k]).message.text = "Invalid email format (no @ symbol)"

\* C6: no SMTP connection is left open when verify_smtp has returned.
C6_Original == Completed(6) => conn # "open"

\* C7 as stated: valid = True exactly when resolution, connect, HELO, MAIL
\* FROM and RCPT TO completed and the RCPT code is 250 or 251.
C7_Original ==
    (HAS_DNS /\ Completed(6)) =>
        LET e == Entry(results, "SMTP Verification")
        IN  /\ e.valid = "True" <=>
                  (smtpEnv.stage \in {"quit", "decode", "done"} /\ smtpEnv.code \in {250, 251})
            /\ e.valid \in {"True", "False"}
            /\ e.message.text # "Error: "

\* C7 (amended): with the DNS capability, verify_smtp returns valid = True
\* exactly when resolution, connect, HELO, MAIL FROM, RCPT TO and the closing
\* QUIT all completed without an exception and the RCPT code is 250 or 251;
\* everything else gives valid = False and nothing propagates to the caller.
C7_SmtpValidIff ==
    (HAS_DNS /\ Completed(6)) =>
        LET e == Entry(results, "SMTP Verification")
        IN  /\ e.valid = "True" <=> (smtpEnv.stage = "done" /\ smtpEnv.code \in {250, 251})
            /\ e.valid \in {"True", "False"}
            /\ e.message.text # "Error: "

C7_Witness ==
    /\ Completed(6)
    /\ HAS_DNS
    /\ smtpEnv = [stage |-> "done", code |-> 251]
    /\ Entry(results, "SMTP Verification").valid = "True"

\* C8: for both record types a failed resolution is classified by its cause,
\* with a distinct message per cause; NXDOMAIN is reported as 'domain does
\* not exist'.
C8_Original ==
    (HAS_DNS /\ HasAt(email)) =>
        /\ \A k \in {4, 5} : (Completed(k) /\ dnsEnv[k] = "NXDOMAIN") =>
              Entry(results, TestNames[k]).message.text = "Domain does not exist"
        /\ Completed(4) => \A c, d \in DnsErrors :
              c # d => check_dns_mx(c).message.text # check_dns_mx(d).message.text
        /\ Completed(5) => \A c, d \in DnsErrors :
              c # d => check_dns_a(c).message.text # check_dns_a(d).message.text

\* C9: in one run each check is called exactly once, in the fixed order, the
\* next one only after the previous outcome is recorded; none is left out
\* after a failure, a skip or an exception and none is called again.
C9_EachCheckOnceInOrder ==
    /\ idx \in 1..(NumTests + 1)
    /\ pc = "loop" =>
          /\ \A k \in 1..NumTests : calls[k] = IF k < idx THEN 1 ELSE 0
          /\ \A k \in 1..(idx - 1) : TestNames[k] \in Names(results)
    /\ pc = "done" => \A k \in 1..NumTests : calls[k] = 1

C9_Witness ==
    /\ pc = "done"
    /\ results[1].valid = "False"
    /\ libEnv = "Exception"
    /\ results[4].valid = "False"
    /\ calls[6] = 1

\* C10: the report is empty when a run starts, during a run it holds exactly
\* the outcomes of the checks completed so far, and a written entry is never
\* modified afterwards.
C10_Original ==
    /\ [](pc = "loop" =>
            /\ Len(results) = idx - 1
            /\ \A k \in 1..Len(results) : results[k].name = TestNames[k])
    /\ [][\A k \in 1..Len(results) : Len(results') >= k /\ results'[k] = results[k]]_vars

====
